---- MODULE Spec2Model ----
(***************************************************************************)
(* The transaction decorators of pgmq-py (src/src/pgmq/decorators.py):     *)
(* `transaction` (synchronous) and `async_transaction` (asynchronous).     *)
(* Every invocation of a decorated callable is a process that walks the    *)
(* wrapper's statements one step at a time; the connection pool, the       *)
(* transaction object, the logger and the wrapped callable are the         *)
(* environment, and every call the wrapper makes on them either succeeds   *)
(* or raises.  The second part is the queue client the HTTP facade is      *)
(* tested with (FakeQueue, src/tests/test_api.py) and the requests made to *)
(* it through the facade.                                                  *)
(***************************************************************************)
EXTENDS Integers, Sequences, FiniteSets, TLC

\* Bounds of the model.
NCalls == 2
NConns == 2
MaxSends == 2      \* messages sent over the HTTP facade
MaxBatch == 2      \* length of a batch request

Calls == 1..NCalls

(***************************************************************************)
(* Python values.  Every value is a record of the same shape so that any   *)
(* two of them can be compared.                                            *)
(***************************************************************************)
Obj(k, i) == [kind |-> k, n |-> i]

None == Obj("None", 0)
QueueObj == Obj("queue", 0)         \* a PGMQueue: exposes .pool and .logger
Payload == Obj("arg", 0)            \* any other argument value
ExtConn == Obj("conn", 0)           \* a connection the caller owns
PoolConns == {Obj("conn", i) : i \in 1..NConns}

\* id(obj): the address of a live object, distinct for distinct objects.
AddrBase == 7000
AddrStep == 16
\* Variant: the identifier of the pool's connection class, not of the object.
Id_ofClass(v) == AddrBase
Id(v) == AddrBase + AddrStep * v.n

\* Exceptions, by class name.
NoExc == "NoExc"

\* The decorated callable invocation c is a call of: func.__name__.
FuncName(c) == IF c % 2 = 1 THEN "send" ELSE "read_batch"

\* What the wrapped callable returns.
ResultValues == {"msg_id"}

\* Python dicts: a function from a set of keys.
EmptyDict == [k \in {} |-> None]
Put(d, key, v) == [k \in DOMAIN d \cup {key} |-> IF k = key THEN v ELSE d[k]]

NoOutcome == [kind |-> "none", val |-> ""]
Value(v) == [kind |-> "value", val |-> v]
Raised(e) == [kind |-> "raise", val |-> e]

VARIABLES
    pc,        \* the statement each invocation is at
    mode,      \* "sync" (transaction) or "async" (async_transaction)
    args,      \* the positional arguments the caller passed
    kwargs,    \* the keyword arguments the caller passed
    conn,      \* the wrapper's local `conn`
    free,      \* the pool: its idle connections
    held,      \* the connections each invocation has borrowed and not returned
    txn,       \* state of the transaction the wrapper opened
    log,       \* the log events the invocation emitted, in order
    exc,       \* the exception in flight in the wrapper
    first,     \* history: the first step that raised, and what it raised
    result,    \* history: what the wrapped callable returned or raised
    ret,       \* what the caller of the wrapper observes
    cnt,       \* history: how often the wrapper called acquire/begin/commit/rollback
    called,    \* history: the argument lists the wrapped callable was invoked with
    parent,    \* the invocation whose wrapped callable made this call, 0 if none
    queues,    \* FakeQueue._queues
    next_id,   \* FakeQueue._next_id
    sends,     \* history: queue, payload and returned identifier of every send
    nremoved,  \* history: per queue, how many messages the responses reported removed
    resp       \* the last response of the HTTP facade

\* The state of the queue client behind the HTTP facade, and what was observed
\* of it.
qvars == <<queues, next_id, sends, nremoved, resp>>

\* The state of the invocations of the decorated callables.
wvars == <<pc, mode, args, kwargs, conn, free, held, txn, log, exc, first,
           result, ret, cnt, called, parent>>

vars == <<pc, mode, args, kwargs, conn, free, held, txn, log, exc, first,
          result, ret, cnt, called, parent, qvars>>

\* The queue names and payloads the requests use.
TestQueue == "test"
QueueNames == {TestQueue, "jobs"}
Payloads == {"foo", "bar"}

\* status_code of a successful response, and of one reporting an error.
OkStatus == 200
ErrorStatus == 500

\* A response: the request it answers (operation, queue, argument), its status
\* and body, and, as history, the messages the queue held before the request.
NoResp == [op |-> "none", queue |-> "", req |-> <<>>, status |-> OkStatus,
           body |-> <<>>, before |-> <<>>]

NoFirst == [step |-> "none", exc |-> NoExc]
ZeroCnt == [acquire |-> 0, begin |-> 0, commit |-> 0, rollback |-> 0, release |-> 0]

(***************************************************************************)
(* The wrapper's decisions.                                                *)
(***************************************************************************)

\* hasattr(v, "pool") and hasattr(v, "logger")
HasPoolAndLogger(v) == v.kind = "queue"

\* bool(v)
Truthy(v) == v # None

\* The object whose pool and logger the wrapper uses.
Receiver(m, a, kw) ==
    IF m = "async" THEN a[1]
    ELSE IF Len(a) > 0 /\ HasPoolAndLogger(a[1]) THEN a[1]
    ELSE IF "queue" \in DOMAIN kw /\ Truthy(kw["queue"]) THEN kw["queue"]
    ELSE a[1]

\* Mutant of Managed: a transaction is opened whatever the caller passed.
Managed_always(kw) == TRUE

\* `if "conn" not in kwargs`
Managed(kw) == "conn" \notin DOMAIN kw

\* kwargs["conn"] = conn
Inject(kw, k) == Put(kw, "conn", k)

\* `except Exception`
IsException(e) == e # "CancelledError"

\* Mutant of TryBody: the acquisition is inside the try block as well.
TryBody_withAcquire(m) ==
    IF m = "sync" THEN {"acquire", "call", "log_success"}
    ELSE {"acquire", "call", "commit", "log_success"}

\* The statements inside `try:`.
TryBody(m) ==
    IF m = "sync" THEN {"call", "log_success"}
    ELSE {"call", "commit", "log_success"}

\* Mutant of Handler: a failed attempt is retried.
Handler_retry(m) == "call"

\* The first statement of the `except Exception as e:` block.
Handler(m) == IF m = "sync" THEN "log_error" ELSE "rollback"

\* The statements inside `with conn.transaction():`.
TxnScope(m) ==
    IF m = "sync" THEN {"log_start", "call", "log_success", "log_error"}
    ELSE {}

\* Mutant of PoolScope: the connection is released on the normal path only.
PoolScope_none(m) == {}

\* The statements inside `with pool.connection() as conn:` / `async with`.
PoolScope(m) ==
    {"begin", "log_start", "call", "log_success", "log_error",
     "commit", "rollback", "exit_txn"}

\* Where control goes when `step` raises e.
Unwind(m, step, e) ==
    IF step \in TryBody(m) /\ IsException(e) THEN Handler(m)
    ELSE IF step \in TxnScope(m) THEN "exit_txn"
    ELSE IF step \in PoolScope(m) THEN "release"
    ELSE "done"

\* Where control goes when `step` completes normally.
NextOk(m, step) ==
    CASE step = "acquire" -> "begin"
      [] step = "begin" -> "log_start"
      [] step = "log_start" -> "call"
      [] step = "call" -> IF m = "sync" THEN "log_success" ELSE "commit"
      [] step = "commit" -> "log_success"
      [] step = "log_success" -> IF m = "sync" THEN "exit_txn" ELSE "release"
      [] step = "rollback" -> "log_error"
      [] step = "exit_txn" -> "release"
      [] step = "release" -> "done"

\* Mutant of Available: one connection object is shared by the invocations.
Available_any(f) == PoolConns

\* The connections the pool may hand out.
Available(f) == f

\* The log events.
Event(kind, name, k, e) == [event |-> kind, op |-> name, conn_id |-> Id(k), exc |-> e]
StartEvent(name, k) == Event("start", name, k, NoExc)
SuccessEvent(name, k) == Event("success", name, k, NoExc)
ErrorEvent(name, k, e) == Event("error", name, k, e)

\* Mutant of ReturnValue: the wrapper forgets to return the result.
ReturnValue_none(r) == Value("None")

\* `return result`
ReturnValue(r) == r

(***************************************************************************)
(* The calls a caller can make.                                            *)
(***************************************************************************)
\* Method form: op(self, x).  Free-function form: op(x, queue=q).
MethodCall == [args |-> <<QueueObj, Payload>>, kwargs |-> EmptyDict]
FunctionCall == [args |-> <<Payload>>, kwargs |-> Put(EmptyDict, "queue", QueueObj)]

\* The caller adds nothing, or conn=<a connection>, or conn=None.
WithConn(call) ==
    {call} \cup {[call EXCEPT !.kwargs = Put(@, "conn", k)] : k \in {ExtConn, None}}

CallForms(m) ==
    IF m = "sync" THEN WithConn(MethodCall) \cup WithConn(FunctionCall)
    ELSE WithConn(MethodCall)

Init ==
    /\ pc = [c \in Calls |-> "idle"]
    /\ mode = [c \in Calls |-> "sync"]
    /\ args = [c \in Calls |-> <<>>]
    /\ kwargs = [c \in Calls |-> EmptyDict]
    /\ conn = [c \in Calls |-> None]
    /\ free = PoolConns
    /\ held = [c \in Calls |-> {}]
    /\ txn = [c \in Calls |-> "none"]
    /\ log = [c \in Calls |-> <<>>]
    /\ exc = [c \in Calls |-> NoExc]
    /\ first = [c \in Calls |-> NoFirst]
    /\ result = [c \in Calls |-> NoOutcome]
    /\ ret = [c \in Calls |-> NoOutcome]
    /\ cnt = [c \in Calls |-> ZeroCnt]
    /\ called = [c \in Calls |-> <<>>]
    /\ parent = [c \in Calls |-> 0]
    /\ queues = EmptyDict
    /\ next_id = 1
    /\ sends = <<>>
    /\ nremoved = [q \in QueueNames |-> 0]
    /\ resp = NoResp

\* `step` of invocation c completes normally.
Ok(c, step) ==
    /\ pc' = [pc EXCEPT ![c] = NextOk(mode[c], step)]
    /\ UNCHANGED <<exc, first>>

\* `step` of invocation c raises e.
Fail(c, step, e) ==
    /\ pc' = [pc EXCEPT ![c] = Unwind(mode[c], step, e)]
    /\ exc' = [exc EXCEPT ![c] = e]
    /\ first' = [first EXCEPT ![c] =
                    IF @.exc = NoExc THEN [step |-> step, exc |-> e] ELSE @]

\* wrapper(*args, **kwargs) is entered.
Invoke(c) ==
    /\ pc[c] = "idle"
    /\ \E m \in {"sync", "async"} : \E call \in CallForms(m) :
          /\ HasPoolAndLogger(Receiver(m, call.args, call.kwargs))
          /\ mode' = [mode EXCEPT ![c] = m]
          /\ args' = [args EXCEPT ![c] = call.args]
          /\ kwargs' = [kwargs EXCEPT ![c] = call.kwargs]
          /\ pc' = [pc EXCEPT ![c] = IF Managed(call.kwargs) THEN "acquire" ELSE "pass"]
    /\ UNCHANGED <<conn, free, held, txn, log, exc, first, result, ret, cnt, called>>
    /\ UNCHANGED <<parent, qvars>>

\* The wrapped callable runs: it returns a value, raises an ordinary exception
\* (a timeout of the connection, say), or, under the asynchronous wrapper, the
\* task is cancelled while it awaits the callable (asyncio.CancelledError, a
\* BaseException).
FuncOutcomes(m) ==
    {Value(v) : v \in ResultValues}
    \cup {Raised("TimeoutError")}
    \cup (IF m = "async" THEN {Raised("CancelledError")} ELSE {})

\* else: return func(*args, **kwargs)
Passthrough(c) ==
    /\ pc[c] = "pass"
    /\ \E o \in FuncOutcomes(mode[c]) :
          /\ called' = [called EXCEPT ![c] =
                           Append(@, [args |-> args[c], kwargs |-> kwargs[c]])]
          /\ result' = [result EXCEPT ![c] = o]
          /\ ret' = [ret EXCEPT ![c] = o]
          /\ first' = [first EXCEPT ![c] =
                          IF o.kind = "raise" THEN [step |-> "call", exc |-> o.val]
                          ELSE @]
          /\ pc' = [pc EXCEPT ![c] = "done"]
    /\ UNCHANGED <<mode, args, kwargs, conn, free, held, txn, log, exc, cnt>>
    /\ UNCHANGED <<parent, qvars>>

\* with self.pool.connection() as conn: / async with self.pool.acquire() as conn:
Acquire(c) ==
    /\ pc[c] = "acquire"
    /\ \/ \E k \in Available(free) :
             /\ conn' = [conn EXCEPT ![c] = k]
             /\ free' = free \ {k}
             /\ held' = [held EXCEPT ![c] = @ \cup {k}]
             /\ cnt' = [cnt EXCEPT ![c].acquire = @ + 1]
             /\ Ok(c, "acquire")
             /\ UNCHANGED ret
       \/ /\ Fail(c, "acquire", "PoolError")
          /\ ret' = [ret EXCEPT ![c] = Raised("PoolError")]
          /\ UNCHANGED <<conn, free, held, cnt>>
    /\ UNCHANGED <<mode, args, kwargs, txn, log, result, called>>
    /\ UNCHANGED <<parent, qvars>>

\* with conn.transaction(): (entered) / txn = conn.transaction(); await txn.start()
Begin(c) ==
    /\ pc[c] = "begin"
    /\ \/ /\ txn' = [txn EXCEPT ![c] = "open"]
          /\ cnt' = [cnt EXCEPT ![c].begin = @ + 1]
          /\ Ok(c, "begin")
       \/ /\ Fail(c, "begin", "BeginError")
          /\ UNCHANGED <<txn, cnt>>
    /\ UNCHANGED <<mode, args, kwargs, conn, free, held, log, result, ret, called>>
    /\ UNCHANGED <<parent, qvars>>

\* PGMQLogger.log_transaction_start(logger, func.__name__, conn_id=id(conn))
LogStart(c) ==
    /\ pc[c] = "log_start"
    /\ \/ /\ log' = [log EXCEPT ![c] = Append(@, StartEvent(FuncName(c), conn[c]))]
          /\ Ok(c, "log_start")
       \/ /\ Fail(c, "log_start", "LogError")
          /\ UNCHANGED log
    /\ UNCHANGED <<mode, args, kwargs, conn, free, held, txn, result, ret, cnt, called>>
    /\ UNCHANGED <<parent, qvars>>

\* kwargs["conn"] = conn; result = func(*args, **kwargs)
CallFunc(c) ==
    /\ pc[c] = "call"
    /\ \E o \in FuncOutcomes(mode[c]) :
          /\ called' = [called EXCEPT ![c] =
                Append(@, [args |-> args[c], kwargs |-> Inject(kwargs[c], conn[c])])]
          /\ result' = [result EXCEPT ![c] = o]
          /\ IF o.kind = "value" THEN Ok(c, "call") ELSE Fail(c, "call", o.val)
    /\ UNCHANGED <<mode, args, kwargs, conn, free, held, txn, log, ret, cnt>>
    /\ UNCHANGED <<parent, qvars>>

\* PGMQLogger.log_transaction_success(logger, func.__name__, conn_id=id(conn))
LogSuccess(c) ==
    /\ pc[c] = "log_success"
    /\ \/ /\ log' = [log EXCEPT ![c] = Append(@, SuccessEvent(FuncName(c), conn[c]))]
          /\ Ok(c, "log_success")
       \/ /\ Fail(c, "log_success", "LogError")
          /\ UNCHANGED log
    /\ UNCHANGED <<mode, args, kwargs, conn, free, held, txn, result, ret, cnt, called>>
    /\ UNCHANGED <<parent, qvars>>

\* await txn.commit()
Commit(c) ==
    /\ pc[c] = "commit"
    /\ cnt' = [cnt EXCEPT ![c].commit = @ + 1]
    /\ \/ /\ txn' = [txn EXCEPT ![c] = "committed"]
          /\ Ok(c, "commit")
       \/ /\ txn' = [txn EXCEPT ![c] = "failed"]
          /\ Fail(c, "commit", "CommitError")
    /\ UNCHANGED <<mode, args, kwargs, conn, free, held, log, result, ret, called>>
    /\ UNCHANGED <<parent, qvars>>

\* await txn.rollback()
Rollback(c) ==
    /\ pc[c] = "rollback"
    /\ cnt' = [cnt EXCEPT ![c].rollback = @ + 1]
    /\ \/ /\ txn' = [txn EXCEPT ![c] =
                        IF @ \in {"open", "failed"} THEN "rolledback" ELSE @]
          /\ Ok(c, "rollback")
       \/ /\ Fail(c, "rollback", "RollbackError")
          /\ UNCHANGED txn
    /\ UNCHANGED <<mode, args, kwargs, conn, free, held, log, result, ret, called>>
    /\ UNCHANGED <<parent, qvars>>

\* PGMQLogger.log_transaction_error(logger, func.__name__, e, conn_id=id(conn)); raise
LogError(c) ==
    /\ pc[c] = "log_error"
    /\ \/ /\ log' = [log EXCEPT ![c] =
                        Append(@, ErrorEvent(FuncName(c), conn[c], exc[c]))]
          /\ pc' = [pc EXCEPT ![c] = Unwind(mode[c], "log_error", exc[c])]
          /\ UNCHANGED <<exc, first>>
       \/ /\ Fail(c, "log_error", "LogError")
          /\ UNCHANGED log
    /\ UNCHANGED <<mode, args, kwargs, conn, free, held, txn, result, ret, cnt, called>>
    /\ UNCHANGED <<parent, qvars>>

\* The exit of `with conn.transaction():`: commit without an exception in
\* flight, rollback with one.  A rollback that fails either raises or leaves
\* the exception in flight as it is.
ExitTxn(c) ==
    /\ pc[c] = "exit_txn"
    /\ IF exc[c] = NoExc
       THEN /\ cnt' = [cnt EXCEPT ![c].commit = @ + 1]
            /\ \/ /\ txn' = [txn EXCEPT ![c] = "committed"]
                  /\ Ok(c, "exit_txn")
               \/ /\ txn' = [txn EXCEPT ![c] = "failed"]
                  /\ Fail(c, "exit_txn", "CommitError")
       ELSE /\ cnt' = [cnt EXCEPT ![c].rollback = @ + 1]
            /\ \/ /\ txn' = [txn EXCEPT ![c] = "rolledback"]
                  /\ pc' = [pc EXCEPT ![c] = Unwind(mode[c], "exit_txn", exc[c])]
                  /\ UNCHANGED <<exc, first>>
               \/ /\ txn' = [txn EXCEPT ![c] = "failed"]
                  /\ pc' = [pc EXCEPT ![c] = Unwind(mode[c], "exit_txn", exc[c])]
                  /\ UNCHANGED <<exc, first>>
               \/ /\ txn' = [txn EXCEPT ![c] = "failed"]
                  /\ Fail(c, "exit_txn", "RollbackError")
    /\ UNCHANGED <<mode, args, kwargs, conn, free, held, log, result, ret, called>>
    /\ UNCHANGED <<parent, qvars>>

\* The exit of `with self.pool.connection()` / `async with self.pool.acquire()`:
\* the connection goes back to the pool, and the wrapper returns or raises.
Release(c) ==
    /\ pc[c] = "release"
    /\ free' = free \cup held[c]
    /\ held' = [held EXCEPT ![c] = {}]
    /\ cnt' = [cnt EXCEPT ![c].release = @ + 1]
    /\ \/ /\ Ok(c, "release")
          /\ ret' = [ret EXCEPT ![c] =
                        IF exc[c] = NoExc THEN ReturnValue(result[c]) ELSE Raised(exc[c])]
       \/ /\ Fail(c, "release", "ReleaseError")
          /\ ret' = [ret EXCEPT ![c] = Raised("ReleaseError")]
    /\ UNCHANGED <<mode, args, kwargs, conn, txn, log, result, called>>
    /\ UNCHANGED <<parent, qvars>>

\* One step of invocation c.
Step(c) ==
    \/ Invoke(c)
    \/ Passthrough(c)
    \/ Acquire(c)
    \/ Begin(c)
    \/ LogStart(c)
    \/ CallFunc(c)
    \/ LogSuccess(c)
    \/ Commit(c)
    \/ Rollback(c)
    \/ LogError(c)
    \/ ExitTxn(c)
    \/ Release(c)

(***************************************************************************)
(* Spec: one invocation, in which every call the wrapper makes on its      *)
(* environment can succeed or raise.                                       *)
(***************************************************************************)
Next == \E c \in {1} : Step(c)

Spec == Init /\ [][Next]_vars

(***************************************************************************)
(* SpecPool: NCalls invocations that run concurrently on one pool, none    *)
(* with a connection supplied by its caller.  The wrapped callable returns,*)
(* raises or is cancelled, and acquiring a connection can fail or wait for *)
(* a free connection; the other calls on the environment succeed.          *)
(***************************************************************************)
\* The step of invocation c that has just been taken met no failure of the
\* transaction, the logger or the release.
Reliable(c) ==
    /\ exc'[c] \in {NoExc} \cup {o.val : o \in FuncOutcomes(mode[c])}
    /\ txn'[c] # "failed"

NextPool ==
    \E c \in Calls :
        \/ Invoke(c) /\ Managed(kwargs'[c])
        \/ Acquire(c)
        \/ Begin(c) /\ Reliable(c)
        \/ LogStart(c) /\ Reliable(c)
        \/ CallFunc(c)
        \/ LogSuccess(c) /\ Reliable(c)
        \/ Commit(c) /\ Reliable(c)
        \/ Rollback(c) /\ Reliable(c)
        \/ LogError(c) /\ Reliable(c)
        \/ ExitTxn(c) /\ Reliable(c)
        \/ Release(c) /\ Reliable(c)

SpecPool == Init /\ [][NextPool]_vars

(***************************************************************************)
(* SpecPair: the same receiver-first call made once through the            *)
(* synchronous wrapper (invocation 1) and once through the asynchronous    *)
(* wrapper (invocation 2), no connection supplied; every call on the       *)
(* environment can succeed or raise.                                       *)
(***************************************************************************)
PairMode(c) == IF c = 1 THEN "sync" ELSE "async"

InvokePair(c) ==
    /\ Invoke(c)
    /\ mode'[c] = PairMode(c)
    /\ args'[c] = MethodCall.args
    /\ kwargs'[c] = MethodCall.kwargs

NextPair ==
    \E c \in {1, 2} :
        \/ InvokePair(c)
        \/ Acquire(c)
        \/ Begin(c)
        \/ LogStart(c)
        \/ CallFunc(c)
        \/ LogSuccess(c)
        \/ Commit(c)
        \/ Rollback(c)
        \/ LogError(c)
        \/ ExitTxn(c)
        \/ Release(c)

SpecPair == Init /\ [][NextPair]_vars

(***************************************************************************)
(* SpecNested: decorated operations that call other decorated operations.  *)
(* While the wrapped callable of an invocation runs it may call another    *)
(* decorated operation of the same receiver, with the connection it was    *)
(* given passed on as conn or without it.  The pool has any capacity from  *)
(* 1 to NConns; the environment is that of SpecPool.  Every step of an     *)
(* invocation is eventually taken when it stays possible, except that      *)
(* nobody has to make a call and a wait for a connection need not fail.    *)
(***************************************************************************)
\* The connection the wrapped callable of invocation p runs with.
GivenConn(p) == IF Managed(kwargs[p]) THEN conn[p] ELSE kwargs[p]["conn"]

\* The wrapped callable of invocation p is running.
InBody(p) == pc[p] \in {"call", "pass"}

\* The inner call made with the caller's connection passed on, or without.
InnerCalls(p) ==
    {MethodCall, [MethodCall EXCEPT !.kwargs = Put(@, "conn", GivenConn(p))]}

\* The wrapped callable of invocation p calls a decorated operation.
InvokeInner(p, c) ==
    /\ p \in Calls
    /\ InBody(p)
    /\ pc[c] = "idle"
    /\ \E call \in InnerCalls(p) :
          /\ mode' = [mode EXCEPT ![c] = mode[p]]
          /\ args' = [args EXCEPT ![c] = call.args]
          /\ kwargs' = [kwargs EXCEPT ![c] = call.kwargs]
          /\ pc' = [pc EXCEPT ![c] = IF Managed(call.kwargs) THEN "acquire" ELSE "pass"]
    /\ parent' = [parent EXCEPT ![c] = p]
    /\ UNCHANGED <<conn, free, held, txn, log, exc, first, result, ret, cnt, called, qvars>>

\* The calls the wrapped callable of invocation p has made are over.
BodyEnds(p) == \A c \in Calls : parent[c] = p => pc[c] \in {"idle", "done"}

\* The pool hands a free connection to invocation c.
AcquireOk(c) == Acquire(c) /\ cnt'[c].acquire = cnt[c].acquire + 1

InitNested ==
    /\ pc = [c \in Calls |-> "idle"]
    /\ mode = [c \in Calls |-> "sync"]
    /\ args = [c \in Calls |-> <<>>]
    /\ kwargs = [c \in Calls |-> EmptyDict]
    /\ conn = [c \in Calls |-> None]
    /\ free \in {{Obj("conn", i) : i \in 1..n} : n \in 1..NConns}
    /\ held = [c \in Calls |-> {}]
    /\ txn = [c \in Calls |-> "none"]
    /\ log = [c \in Calls |-> <<>>]
    /\ exc = [c \in Calls |-> NoExc]
    /\ first = [c \in Calls |-> NoFirst]
    /\ result = [c \in Calls |-> NoOutcome]
    /\ ret = [c \in Calls |-> NoOutcome]
    /\ cnt = [c \in Calls |-> ZeroCnt]
    /\ called = [c \in Calls |-> <<>>]
    /\ parent = [c \in Calls |-> 0]
    /\ queues = EmptyDict
    /\ next_id = 1
    /\ sends = <<>>
    /\ nremoved = [q \in QueueNames |-> 0]
    /\ resp = NoResp

\* A caller outside the wrappers makes a call: the first invocation, whose
\* callable may go on to call others, or a last, independent one.
InvokeOuter(c) ==
    /\ c \in {1, NCalls}
    /\ Invoke(c)
    /\ args'[c] = MethodCall.args
    /\ kwargs'[c] = MethodCall.kwargs

NextNested ==
    \E c \in Calls :
        \/ InvokeOuter(c)
        \/ InvokeInner(c - 1, c)
        \/ Passthrough(c) /\ BodyEnds(c)
        \/ Acquire(c)
        \/ Begin(c) /\ Reliable(c)
        \/ LogStart(c) /\ Reliable(c)
        \/ CallFunc(c) /\ BodyEnds(c)
        \/ LogSuccess(c) /\ Reliable(c)
        \/ Commit(c) /\ Reliable(c)
        \/ Rollback(c) /\ Reliable(c)
        \/ LogError(c) /\ Reliable(c)
        \/ ExitTxn(c) /\ Reliable(c)
        \/ Release(c) /\ Reliable(c)

\* The steps of invocation c that are taken when they stay possible.
Progress(c) ==
    \/ Passthrough(c) /\ BodyEnds(c)
    \/ AcquireOk(c)
    \/ Begin(c) /\ Reliable(c)
    \/ LogStart(c) /\ Reliable(c)
    \/ CallFunc(c) /\ BodyEnds(c)
    \/ LogSuccess(c) /\ Reliable(c)
    \/ Commit(c) /\ Reliable(c)
    \/ Rollback(c) /\ Reliable(c)
    \/ LogError(c) /\ Reliable(c)
    \/ ExitTxn(c) /\ Reliable(c)
    \/ Release(c) /\ Reliable(c)

SpecNested ==
    /\ InitNested
    /\ [][NextNested]_vars
    /\ \A c \in Calls : WF_vars(Progress(c))

(***************************************************************************)
(* The queue client behind the HTTP facade (FakeQueue, tests/test_api.py). *)
(* Every method is an operator from the client's state st = [queues,       *)
(* next_id] to the state after the call, with the value returned or the    *)
(* exception raised.  The timestamps of a message are left out.            *)
(***************************************************************************)
Min(a, b) == IF a <= b THEN a ELSE b
Max(a, b) == IF a >= b THEN a ELSE b

\* Message(msg_id=msg_id, read_ct=0, enqueued_at=now, vt=now, message=message)
Message(id, m) == [msg_id |-> id, read_ct |-> 0, message |-> m]

Returns(qs, nid, v) == [queues |-> qs, next_id |-> nid, value |-> v, error |-> NoExc]
Raises(qs, nid, e) == [queues |-> qs, next_id |-> nid, value |-> None, error |-> e]

\* self._queues.setdefault(queue, [])
EnsureQueue(qs, q) == IF q \in DOMAIN qs THEN qs ELSE Put(qs, q, <<>>)

\* Variant: the counter is not advanced.
Bump_none(n) == n

\* self._next_id += 1
Bump(n) == n + 1

\* FakeQueue.send
Send(st, q, m) ==
    LET qs == EnsureQueue(st.queues, q)
        msg_id == st.next_id
    IN  Returns([qs EXCEPT ![q] = Append(@, Message(msg_id, m))], Bump(st.next_id), msg_id)

\* FakeQueue.send_batch: [self.send(queue, message, ...) for message in messages]
RECURSIVE SendBatch(_, _, _)
SendBatch(st, q, ms) ==
    IF ms = <<>> THEN Returns(st.queues, st.next_id, <<>>)
    ELSE LET one == Send(st, q, Head(ms))
             rest == SendBatch(one, q, Tail(ms))
         IN  [rest EXCEPT !.value = <<one.value>> \o @]

\* Variant: the slice is taken from the end of the list.
Slice_fromEnd(s, n) ==
    IF n >= 0 THEN SubSeq(s, Len(s) - Min(n, Len(s)) + 1, Len(s))
    ELSE SubSeq(s, 1, Max(Len(s) + n, 0))

\* s[:n]
Slice(s, n) ==
    IF n >= 0 THEN SubSeq(s, 1, Min(n, Len(s)))
    ELSE SubSeq(s, 1, Max(Len(s) + n, 0))

\* FakeQueue.read_batch
ReadBatch(st, q, n) ==
    LET qs == EnsureQueue(st.queues, q)
    IN  Returns(qs, st.next_id, Slice(qs[q], n))

\* FakeQueue.pop
Pop(st, q) ==
    LET qs == EnsureQueue(st.queues, q)
    IN  IF qs[q] = <<>> THEN Raises(qs, st.next_id, "IndexError")
        ELSE Returns([qs EXCEPT ![q] = Tail(@)], st.next_id, Head(qs[q]))

\* The index of the first message of s with identifier id, 0 if there is none.
IndexOf(s, id) ==
    LET hits == {i \in DOMAIN s : s[i].msg_id = id}
    IN  IF hits = {} THEN 0 ELSE CHOOSE i \in hits : \A j \in hits : i <= j

\* Variant: the message at the head of the list is deleted.
RemoveAt_head(s, i) == Tail(s)

\* del s[i]
RemoveAt(s, i) == SubSeq(s, 1, i - 1) \o SubSeq(s, i + 1, Len(s))

\* FakeQueue.delete
Delete(st, q, id) ==
    LET qs == EnsureQueue(st.queues, q)
        idx == IndexOf(qs[q], id)
    IN  IF idx = 0 THEN Returns(qs, st.next_id, FALSE)
        ELSE Returns([qs EXCEPT ![q] = RemoveAt(@, idx)], st.next_id, TRUE)

\* FakeQueue.delete_batch
RECURSIVE DeleteBatch(_, _, _)
DeleteBatch(st, q, ids) ==
    IF ids = <<>> THEN Returns(st.queues, st.next_id, <<>>)
    ELSE LET one == Delete(st, q, Head(ids))
             rest == DeleteBatch(one, q, Tail(ids))
         IN  [rest EXCEPT !.value = (IF one.value THEN <<Head(ids)>> ELSE <<>>) \o @]

\* FakeQueue.archive, FakeQueue.archive_batch
Archive(st, q, id) == Delete(st, q, id)
ArchiveBatch(st, q, ids) == DeleteBatch(st, q, ids)

\* FakeQueue.metrics
Metrics(st, q) ==
    LET qs == EnsureQueue(st.queues, q)
        length == Len(qs[q])
    IN  Returns(qs, st.next_id,
                [queue_name |-> q, queue_length |-> length, total_messages |-> length])

(***************************************************************************)
(* SpecQueue: the HTTP facade over a FakeQueue (create_app(queue=          *)
(* fake_queue)).  Every request is routed to the client method of the same *)
(* name; the response carries the method's value with the success status,  *)
(* or the exception it raised with an error status.                        *)
(***************************************************************************)
St == [queues |-> queues, next_id |-> next_id]

\* The request bodies.
Batches == UNION {[1..n -> Payloads] : n \in 0..MaxBatch}
IdLists == UNION {[1..n -> 1..MaxSends] : n \in 0..MaxBatch}
BatchSizes == 0..MaxBatch

\* The facade answers request op(q, req) with the outcome r of the client call.
Respond(op, q, req, r) ==
    /\ queues' = r.queues
    /\ next_id' = r.next_id
    /\ resp' = [op |-> op, queue |-> q, req |-> req,
                status |-> IF r.error = NoExc THEN OkStatus ELSE ErrorStatus,
                body |-> IF r.error = NoExc THEN r.value ELSE r.error,
                before |-> IF q \in DOMAIN queues THEN queues[q] ELSE <<>>]
    /\ UNCHANGED wvars

\* The history of a request that sent messages ms and was answered ids.
Sent(q, ms, ids) ==
    sends' = sends \o [i \in 1..Len(ms) |-> [queue |-> q, msg_id |-> ids[i], message |-> ms[i]]]

\* The history of a request that reported n messages removed.
Removed(q, n) == nremoved' = [nremoved EXCEPT ![q] = @ + n]

\* POST /queues/{q}/messages
ApiSend(q, m) ==
    /\ Len(sends) < MaxSends
    /\ LET r == Send(St, q, m) IN
          /\ Respond("send", q, m, r)
          /\ Sent(q, <<m>>, <<r.value>>)
    /\ UNCHANGED nremoved

\* POST /queues/{q}/messages/batch
ApiSendBatch(q, ms) ==
    /\ Len(sends) + Len(ms) <= MaxSends
    /\ LET r == SendBatch(St, q, ms) IN
          /\ Respond("send_batch", q, ms, r)
          /\ Sent(q, ms, r.value)
    /\ UNCHANGED nremoved

\* POST /queues/{q}/messages/read
ApiRead(q, n) ==
    /\ Respond("read", q, n, ReadBatch(St, q, n))
    /\ UNCHANGED <<sends, nremoved>>

\* pop
ApiPop(q) ==
    /\ LET r == Pop(St, q) IN
          /\ Respond("pop", q, <<>>, r)
          /\ Removed(q, IF r.error = NoExc THEN 1 ELSE 0)
    /\ UNCHANGED sends

\* delete / archive of one message
ApiDelete(q, id) ==
    /\ LET r == Delete(St, q, id) IN
          /\ Respond("delete", q, id, r)
          /\ Removed(q, IF r.value THEN 1 ELSE 0)
    /\ UNCHANGED sends

ApiArchive(q, id) ==
    /\ LET r == Archive(St, q, id) IN
          /\ Respond("archive", q, id, r)
          /\ Removed(q, IF r.value THEN 1 ELSE 0)
    /\ UNCHANGED sends

\* DELETE /queues/{q}/messages, and archive of a batch
ApiDeleteBatch(q, ids) ==
    /\ LET r == DeleteBatch(St, q, ids) IN
          /\ Respond("delete_batch", q, ids, r)
          /\ Removed(q, Len(r.value))
    /\ UNCHANGED sends

ApiArchiveBatch(q, ids) ==
    /\ LET r == ArchiveBatch(St, q, ids) IN
          /\ Respond("archive_batch", q, ids, r)
          /\ Removed(q, Len(r.value))
    /\ UNCHANGED sends

\* GET /queues/{q}/metrics
ApiMetrics(q) ==
    /\ Respond("metrics", q, <<>>, Metrics(St, q))
    /\ UNCHANGED <<sends, nremoved>>

\* Messages are sent to either queue; the other requests address the queue
\* the test addresses.
NextQueue ==
    \/ \E q \in QueueNames : \E m \in Payloads : ApiSend(q, m)
    \/ \E q \in {TestQueue} :
          \/ \E ms \in Batches : ApiSendBatch(q, ms)
          \/ \E n \in BatchSizes : ApiRead(q, n)
          \/ ApiPop(q)
          \/ \E id \in 1..MaxSends : ApiDelete(q, id)
          \/ \E id \in 1..MaxSends : ApiArchive(q, id)
          \/ \E ids \in IdLists : ApiDeleteBatch(q, ids)
          \/ \E ids \in IdLists : ApiArchiveBatch(q, ids)
          \/ ApiMetrics(q)

SpecQueue == Init /\ [][NextQueue]_vars

(***************************************************************************)
(* The properties.                                                         *)
(***************************************************************************)
Done(c) == pc[c] = "done"
Started(c) == pc[c] # "idle"
ConnSupplied(c) == "conn" \in DOMAIN kwargs[c]
WrapperManaged(c) == Started(c) /\ ~ConnSupplied(c)
InUse(c) ==
    pc[c] \in {"begin", "log_start", "call", "log_success", "commit",
               "rollback", "log_error", "exit_txn", "release"}
Events(c, kind) == {i \in DOMAIN log[c] : log[c][i].event = kind}

\* An event of `kind` carrying the tags of the invocation's start event.
TaggedAsStart(c, kind) ==
    \E i \in Events(c, "start"), j \in Events(c, kind) :
        /\ i < j
        /\ log[c][j].op = log[c][i].op
        /\ log[c][j].conn_id = log[c][i].conn_id

\* What the wrapped callable is invoked with when `k` is injected.
Injected(c, k) ==
    [args |-> args[c],
     kwargs |-> [x \in DOMAIN kwargs[c] \cup {"conn"} |->
                    IF x = "conn" THEN k ELSE kwargs[c][x]]]

\* C1 (as claimed): every finished invocation without a pre-supplied
\* connection acquired exactly one connection, opened exactly one transaction
\* and invoked the callable exactly once, with that connection injected under
\* "conn" and the other arguments unchanged.
C1_ExactlyOnceAlways ==
    \A c \in Calls :
        Done(c) /\ WrapperManaged(c) =>
            /\ cnt[c].acquire = 1
            /\ cnt[c].begin = 1
            /\ conn[c] \in PoolConns
            /\ called[c] = <<Injected(c, conn[c])>>

\* C1 (amended): an invocation without a pre-supplied connection acquires at
\* most one connection, opens at most one transaction and invokes the callable
\* at most once, so a failure is never retried; the callable is invoked only
\* with the one acquired connection injected under "conn" and every other
\* argument unchanged, inside the one transaction; and it is invoked exactly
\* once whenever acquisition, transaction start and the start log succeed.
C1_AtMostOnceExactlyOnceWhenStarted ==
    \A c \in Calls :
        WrapperManaged(c) =>
            /\ cnt[c].acquire <= 1
            /\ cnt[c].begin <= 1
            /\ Len(called[c]) <= 1
            /\ Len(called[c]) = 1 =>
                  /\ cnt[c].acquire = 1
                  /\ cnt[c].begin = 1
                  /\ conn[c] \in PoolConns
                  /\ called[c][1] = Injected(c, conn[c])
            /\ Done(c) /\ first[c].step \notin {"acquire", "begin", "log_start"} =>
                  Len(called[c]) = 1

\* C1 witness: a finished wrapper-managed invocation whose one attempt failed.
C1_Witness ==
    \E c \in Calls :
        /\ Done(c) /\ WrapperManaged(c)
        /\ Len(called[c]) = 1
        /\ result[c].kind = "raise"
        /\ ret[c].kind = "raise"

\* C2: with a connection pre-supplied the wrapper acquires nothing from the
\* pool, opens no transaction, logs nothing, invokes the callable once with the
\* caller's arguments unchanged and hands its result or exception to the caller.
C2_Passthrough ==
    \A c \in Calls :
        Started(c) /\ ConnSupplied(c) =>
            /\ cnt[c] = ZeroCnt
            /\ held[c] = {}
            /\ free = PoolConns
            /\ conn[c] = None
            /\ txn[c] = "none"
            /\ log[c] = <<>>
            /\ Len(called[c]) <= 1
            /\ called[c] # <<>> => called[c][1] = [args |-> args[c], kwargs |-> kwargs[c]]
            /\ Done(c) =>
                  /\ Len(called[c]) = 1
                  /\ result[c] # NoOutcome
                  /\ ret[c] = result[c]

\* C2 witness: a finished call with the caller's own connection, whose
\* callable raised.
C2_Witness ==
    \E c \in Calls :
        /\ Done(c)
        /\ ConnSupplied(c) /\ kwargs[c]["conn"] = ExtConn
        /\ ret[c].kind = "raise"

\* C3 (as claimed): when the wrapped operation of a wrapper-managed invocation
\* raises an exception (an Exception; cancellation is C10), an error event with the operation name and connection
\* identifier of the start event is logged and the transaction is rolled back,
\* never committed, before the wrapper exits.
C3_ErrorLoggedAndRolledBack ==
    \A c \in Calls :
        ( /\ Done(c) /\ WrapperManaged(c)
          /\ result[c].kind = "raise"
          /\ result[c].val # "CancelledError" ) =>
            /\ TaggedAsStart(c, "error")
            /\ txn[c] = "rolledback"
            /\ cnt[c].commit = 0

\* C4 (as claimed): the caller observes the operation's result when no step
\* failed, and otherwise exactly the first exception raised in the wrapper,
\* also when a later cleanup step fails in turn.
C4_FirstExceptionObserved ==
    \A c \in Calls :
        Done(c) =>
            ret[c] = IF first[c].exc = NoExc THEN result[c] ELSE Raised(first[c].exc)

\* C5 (as claimed): when the wrapped operation of a wrapper-managed invocation
\* completes normally, a success event with the invocation's tags is logged
\* before the wrapper returns, no error event is logged, and the caller
\* receives the operation's value.
C5_SuccessAlways ==
    \A c \in Calls :
        Done(c) /\ WrapperManaged(c) /\ result[c].kind = "value" =>
            /\ TaggedAsStart(c, "success")
            /\ Events(c, "error") = {}
            /\ ret[c] = result[c]

\* C5 (amended): a success event is logged only after the operation has
\* returned normally; when the operation completes normally and the steps that
\* follow it (success log, commit, release) succeed, exactly one success event
\* with the invocation's operation name and connection identifier is in the log
\* when control returns, no error event is, and the caller receives the
\* operation's value; a value the caller receives is always that value.
C5_SuccessWhenNothingFails ==
    \A c \in Calls :
        WrapperManaged(c) =>
            /\ Events(c, "success") # {} => result[c].kind = "value"
            /\ ret[c].kind = "value" => ret[c] = result[c]
            /\ Done(c) /\ result[c].kind = "value" /\ first[c].exc = NoExc =>
                  /\ Cardinality(Events(c, "success")) = 1
                  /\ TaggedAsStart(c, "success")
                  /\ \A i \in Events(c, "success") :
                        /\ log[c][i].op = FuncName(c)
                        /\ log[c][i].conn_id = Id(conn[c])
                  /\ Events(c, "error") = {}
                  /\ ret[c] = result[c]

\* C5 witness: a wrapper-managed invocation returned the operation's value.
C5_Witness ==
    \E c \in Calls :
        /\ Done(c) /\ WrapperManaged(c)
        /\ result[c].kind = "value"
        /\ first[c].exc = NoExc
        /\ ret[c].kind = "value"

\* C6 (as claimed): when the wrapper returns, the transaction it opened has
\* been ended by exactly one call, a commit or a rollback: never both, never
\* neither.
C6_EndedExactlyOnce ==
    \A c \in Calls :
        Done(c) /\ cnt[c].begin = 1 => cnt[c].commit + cnt[c].rollback = 1

\* C7: at every point of every interleaving an invocation holds at most one
\* borrowed connection, holds the connection it is using, and shares it with
\* no other invocation.
C7_NoSharedConnection ==
    /\ \A c \in Calls :
          /\ Cardinality(held[c]) <= 1
          /\ InUse(c) => held[c] = {conn[c]}
          /\ held[c] \cap free = {}
    /\ \A c1, c2 \in Calls : c1 # c2 => held[c1] \cap held[c2] = {}

\* C7 witness: an asynchronous invocation suspended in its wrapped call while
\* another invocation holds a different connection.
C7_Witness ==
    \E c1, c2 \in Calls :
        /\ c1 # c2
        /\ mode[c1] = "async" /\ pc[c1] = "call"
        /\ InUse(c2)
        /\ held[c1] # {} /\ held[c2] # {}

\* C8: a finished invocation holds no connection, whatever step raised, and
\* when no invocation is in progress every connection is back in the pool.
C8_ReleasedOnEveryExit ==
    /\ \A c \in Calls : Done(c) => held[c] = {} /\ cnt[c].release = cnt[c].acquire
    /\ (\A c \in Calls : pc[c] \in {"idle", "done"}) => free = PoolConns

\* C8 witness: an invocation that borrowed a connection ended with a failed
\* rollback.
C8_Witness ==
    \E c \in Calls :
        /\ Done(c)
        /\ cnt[c].acquire = 1
        /\ exc[c] = "RollbackError"
        /\ free = PoolConns

\* C9: when acquiring the connection fails the invocation is over: the caller
\* gets that exception, no transaction was opened, the callable was not
\* invoked and no event was logged.
C9_AcquireFailure ==
    \A c \in Calls :
        first[c].step = "acquire" =>
            /\ Done(c)
            /\ ret[c] = Raised(first[c].exc)
            /\ cnt[c] = ZeroCnt
            /\ txn[c] = "none"
            /\ called[c] = <<>>
            /\ log[c] = <<>>
            /\ held[c] = {}

\* C9 witness: an invocation whose acquisition failed.
C9_Witness == \E c \in Calls : first[c].step = "acquire" /\ ret[c] = Raised("PoolError")

\* C10 (as claimed, and in the claim's favour only for invocations in which
\* nothing but the interruption fails): a timeout or cancellation that
\* interrupts the wrapped operation is logged as a transaction error, the
\* transaction is rolled back and the interruption is re-raised to the caller.
C10_InterruptionThroughErrorPath ==
    \A c \in Calls :
        ( /\ Done(c) /\ WrapperManaged(c)
          /\ result[c].kind = "raise"
          /\ result[c].val \in {"TimeoutError", "CancelledError"}
          /\ first[c] = [step |-> "call", exc |-> result[c].val]
          /\ exc[c] = result[c].val
          /\ txn[c] # "failed" ) =>
            /\ TaggedAsStart(c, "error")
            /\ txn[c] = "rolledback"
            /\ ret[c] = result[c]

\* The connection identifiers carried by the events of invocation c.
ConnIds(c) == {log[c][i].conn_id : i \in DOMAIN log[c]}

\* C11 (as claimed): two synchronous wrapper-managed invocations on one pool
\* log distinct connection identifiers, whether they overlap or run one after
\* the other.
C11_DistinctIdsAlways ==
    \A c1, c2 \in Calls :
        (c1 # c2 /\ mode[c1] = "sync" /\ mode[c2] = "sync"
            /\ WrapperManaged(c1) /\ WrapperManaged(c2)) =>
            ConnIds(c1) \cap ConnIds(c2) = {}

\* C11 (amended): every event of a synchronous wrapper-managed invocation
\* carries one and the same connection identifier, and two such invocations
\* that overlap (each has logged its start and neither has released its
\* connection) carry distinct identifiers.
C11_DistinctIdsWhenOverlapping ==
    /\ \A c \in Calls :
          (mode[c] = "sync" /\ WrapperManaged(c)) => Cardinality(ConnIds(c)) <= 1
    /\ \A c1, c2 \in Calls :
          (c1 # c2 /\ mode[c1] = "sync" /\ mode[c2] = "sync"
              /\ InUse(c1) /\ InUse(c2)
              /\ log[c1] # <<>> /\ log[c2] # <<>>) =>
              ConnIds(c1) \cap ConnIds(c2) = {}

\* C11 witness: two synchronous invocations overlap, one already past its
\* wrapped call, both with their start event logged.
C11_Witness ==
    \E c1, c2 \in Calls :
        /\ c1 # c2 /\ mode[c1] = "sync" /\ mode[c2] = "sync"
        /\ InUse(c1) /\ InUse(c2)
        /\ Events(c1, "success") # {} /\ Events(c2, "start") # {}
        /\ ConnIds(c1) # ConnIds(c2)

\* The step whose failure was the first of invocation c; the commit of the
\* synchronous wrapper is the normal exit of its transaction scope.
FailedStep(c) == IF first[c].step = "exit_txn" THEN "commit" ELSE first[c].step

\* At most one step of invocation c failed.
AtMostOneFailure(c) ==
    /\ exc[c] = first[c].exc
    /\ txn[c] = "failed" => FailedStep(c) = "commit"

\* The two finished invocations met the same outcome of every step.
SameOutcomes(s, a) ==
    /\ Done(s) /\ Done(a)
    /\ args[s] = args[a] /\ kwargs[s] = kwargs[a]
    /\ result[s] = result[a]
    /\ FailedStep(s) = FailedStep(a)
    /\ first[s].exc = first[a].exc
    /\ AtMostOneFailure(s) /\ AtMostOneFailure(a)

\* The kinds of the events of invocation c and the exceptions they report.
EventKinds(c) == [i \in DOMAIN log[c] |-> <<log[c][i].event, log[c][i].exc>>]

\* C12 (as claimed, and in the claim's favour only for runs in which at most
\* one step fails): a synchronous and an asynchronous invocation of the same
\* receiver-first call that meet the same outcome of every step log the same
\* sequence of events and hand the caller the same result or exception.
C12_AsyncEquivalentToSync ==
    \A s, a \in Calls :
        (mode[s] = "sync" /\ mode[a] = "async" /\ SameOutcomes(s, a)) =>
            /\ EventKinds(s) = EventKinds(a)
            /\ ret[s] = ret[a]

\* C13 (as claimed): whenever the wrapped callable is invoked it is given a
\* connection: the one the caller supplied, or, when the caller omitted conn
\* or passed conn=None, one the wrapper borrowed and injected inside an open
\* transaction.
C13_ConnectionAlwaysPresent ==
    \A c \in Calls : \A i \in DOMAIN called[c] :
        LET given == called[c][i].kwargs["conn"] IN
        /\ given # None
        /\ IF ConnSupplied(c) /\ kwargs[c]["conn"] # None
           THEN given = kwargs[c]["conn"]
           ELSE given \in PoolConns /\ cnt[c].begin = 1

\* Nothing but the wrapped callable itself has raised in invocation c.
OnlyCallableRaised(c) ==
    /\ first[c].step \in {"none", "call"}
    /\ exc[c] = first[c].exc
    /\ txn[c] # "failed"

\* C17 (as claimed, the release part in the claim's favour only for
\* invocations in which nothing but the wrapped callable raises): a
\* wrapper-managed invocation acquires, begins, logs the start, invokes the
\* callable, ends the transaction and releases, in that order; the callable
\* runs only while the transaction is open, and the connection is not back
\* in the pool while the transaction opened on it is still open.
C17_StepOrder ==
    \A c \in Calls :
        WrapperManaged(c) =>
            /\ txn[c] # "none" => cnt[c].acquire = 1
            /\ log[c] # <<>> => cnt[c].begin = 1
            /\ pc[c] = "call" =>
                  /\ txn[c] = "open"
                  /\ held[c] = {conn[c]}
                  /\ Events(c, "start") # {}
                  /\ called[c] = <<>>
            /\ called[c] # <<>> => Events(c, "start") # {}
            /\ (cnt[c].release = 1 /\ OnlyCallableRaised(c)) => txn[c] # "open"

\* C19 (as claimed, and in the claim's favour only for invocations whose
\* connection release does not fail): an invocation that logged
\* transaction-success ends committed, returns to its caller and logs no
\* transaction-error.
C19_SuccessMeansCommitted ==
    \A c \in Calls :
        (Done(c) /\ Events(c, "success") # {} /\ exc[c] # "ReleaseError") =>
            /\ txn[c] = "committed"
            /\ ret[c].kind = "value"
            /\ Events(c, "error") = {}

\* The pool's capacity: its idle and its borrowed connections.
Capacity == Cardinality(free \cup UNION {held[c] : c \in Calls})

\* Invocation c has left the wrapper and holds no connection.
Exited(c) == Done(c) /\ held[c] = {}

\* C20 (as claimed, and in the claim's favour only for the asynchronous
\* wrapper, whose wait for a connection has no time limit of its own):
\* whatever the pool's capacity, every decorated call eventually exits and
\* returns its connection, also when a wrapped operation calls another
\* decorated operation without passing on its connection.
C20_AlwaysTerminates ==
    \A c \in Calls : (Started(c) /\ mode[c] = "async") ~> Exited(c)

\* C20 (amended): every decorated call eventually exits and returns its
\* connection when the pool's capacity is at least the number of calls that
\* can hold a connection at once.
C20_TerminatesWithEnoughConnections ==
    \A c \in Calls : (Started(c) /\ Capacity >= NCalls) ~> Exited(c)

\* C20 witness: an inner call that was not passed its caller's connection
\* borrowed a second one while its caller held the first, and both have
\* exited with every connection back in the pool.
C20_Witness ==
    \E p, c \in Calls :
        /\ parent[c] = p
        /\ ~ConnSupplied(c)
        /\ cnt[c].acquire = 1 /\ cnt[p].acquire = 1
        /\ conn[c] # conn[p]
        /\ Exited(c) /\ Exited(p)
        /\ Capacity >= NCalls
        /\ Cardinality(free) = Capacity

\* The invocations made, directly or indirectly, by the wrapped callable of
\* invocation o.
Inner(o) ==
    {c \in Calls : c > o /\ \A d \in (o + 1)..c : parent[d] = d - 1 /\ Started(d)}

\* The events of `kinds` logged by the invocations in S.
EventsOf(S, kinds) ==
    UNION {{<<d, i>> : i \in {j \in DOMAIN log[d] : log[d][j].event \in kinds}} : d \in S}

\* C18 (as claimed): when a wrapper-managed operation passes the connection
\* it was injected with to the decorated operations it calls, the composition
\* borrows one connection, opens one transaction, logs one start and one
\* terminal event, and an exception of an inner call that reaches the
\* outermost wrapper rolls the transaction back.
C18_ThreadedComposition ==
    \A o \in Calls :
        LET all == Inner(o) \cup {o} IN
        ( /\ parent[o] = 0 /\ WrapperManaged(o) /\ Done(o)
          /\ Inner(o) # {}
          /\ \A d \in Inner(o) :
                Done(d) /\ ConnSupplied(d) /\ kwargs[d]["conn"] = conn[o] ) =>
            /\ Cardinality({d \in all : cnt[d].acquire > 0}) = 1
            /\ \A d \in all : cnt[d].acquire <= 1 /\ cnt[d].begin <= 1
            /\ Cardinality({d \in all : cnt[d].begin > 0}) = 1
            /\ Cardinality(EventsOf(all, {"start"})) = 1
            /\ Cardinality(EventsOf(all, {"success", "error"})) = 1
            /\ EventsOf(Inner(o), {"start", "success", "error"}) = {}
            /\ (\E d \in Inner(o) : ret[d].kind = "raise" /\ result[o] = ret[d]) =>
                  txn[o] = "rolledback"

\* The send recorded as h put message msg into queue q.
SentAs(h, q, msg) == h.queue = q /\ h.msg_id = msg.msg_id /\ h.message = msg.message

\* How many messages were sent to queue q.
NSent(q) == Cardinality({k \in DOMAIN sends : sends[k].queue = q})

\* C14: a read with batch size n is answered with the first min(n, length)
\* messages of the queue; the messages of a queue are messages that were sent
\* to it, in send order, each with the identifier its send returned and the
\* payload that was sent; one send to an empty queue followed by a read of
\* batch size 1 yields exactly that message.
C14_ReadRoundTrip ==
    /\ (resp.op = "read" /\ resp.status = OkStatus) =>
          /\ Len(resp.body) = Min(resp.req, Len(queues[resp.queue]))
          /\ \A i \in DOMAIN resp.body : resp.body[i] = queues[resp.queue][i]
    /\ \A q \in DOMAIN queues :
          /\ \A i \in DOMAIN queues[q] :
                \E k \in DOMAIN sends : SentAs(sends[k], q, queues[q][i])
          /\ \A i, j \in DOMAIN queues[q] :
                i < j => \E k, l \in DOMAIN sends :
                            /\ k < l
                            /\ SentAs(sends[k], q, queues[q][i])
                            /\ SentAs(sends[l], q, queues[q][j])
    /\ (Len(sends) = 1 /\ resp.op = "read" /\ resp.req = 1
            /\ resp.queue = sends[1].queue /\ nremoved[resp.queue] = 0) =>
          /\ Len(resp.body) = 1
          /\ SentAs(sends[1], resp.queue, resp.body[1])

\* C14 witness: a read of batch size 1 answered with the first of two
\* messages with different payloads.
C14_Witness ==
    /\ resp.op = "read" /\ resp.req = 1
    /\ Len(queues[resp.queue]) = 2
    /\ Len(resp.body) = 1
    /\ queues[resp.queue][1].message # queues[resp.queue][2].message
    /\ SentAs(sends[1], resp.queue, resp.body[1])

\* The elements of a sequence.
Range(s) == {s[i] : i \in DOMAIN s}

\* The messages in queue q, none if the client has no such queue.
MessagesIn(q) == IF q \in DOMAIN queues THEN queues[q] ELSE <<>>

\* C15: a delete-batch response lists exactly the requested identifiers that
\* were in the queue, once each and in request order, and exactly those
\* messages are gone from the queue; the length of every queue, and the queue
\* length a metrics response reports, is the number of messages sent to the
\* queue minus the number removed from it.
C15_DeleteBatchAndMetrics ==
    /\ resp.op \in {"delete_batch", "archive_batch"} =>
          LET present == {m.msg_id : m \in Range(resp.before)}
              deleted == Range(resp.body)
          IN  /\ resp.status = OkStatus
              /\ deleted = Range(resp.req) \cap present
              /\ Len(resp.body) = Cardinality(deleted)
              /\ \A i, j \in DOMAIN resp.body :
                    i < j => \E k, l \in DOMAIN resp.req :
                                k < l /\ resp.req[k] = resp.body[i] /\ resp.req[l] = resp.body[j]
              /\ MessagesIn(resp.queue) =
                    SelectSeq(resp.before, LAMBDA m : m.msg_id \notin deleted)
    /\ \A q \in DOMAIN queues : Len(queues[q]) = NSent(q) - nremoved[q]
    /\ resp.op = "metrics" =>
          /\ resp.body.queue_name = resp.queue
          /\ resp.body.queue_length = NSent(resp.queue) - nremoved[resp.queue]

\* C15 witness: a delete-batch request of which one identifier was in the
\* queue and one was not, and which left a message in the queue.
C15_Witness ==
    /\ resp.op = "delete_batch"
    /\ Len(resp.req) = 2 /\ Len(resp.body) = 1
    /\ Len(resp.before) = 2
    /\ Len(queues[resp.queue]) = 1
    /\ queues[resp.queue][1].msg_id # resp.body[1]

\* C16: every identifier a send or batch send returned is a positive integer
\* different from every identifier returned before it, and a batch send of k
\* messages returns k pairwise distinct identifiers.
C16_IdsNeverReused ==
    /\ \A k \in DOMAIN sends :
          /\ sends[k].msg_id > 0
          /\ \A j \in 1..(k - 1) : sends[j].msg_id # sends[k].msg_id
    /\ resp.op = "send_batch" =>
          /\ Len(resp.body) = Len(resp.req)
          /\ \A i, j \in DOMAIN resp.body : i # j => resp.body[i] # resp.body[j]
    /\ resp.op = "send" => resp.body > 0

\* C16 witness: a send to a queue whose earlier message was removed.
C16_Witness ==
    /\ resp.op = "send"
    /\ Len(sends) = 2
    /\ sends[1].queue = resp.queue /\ sends[2].queue = resp.queue
    /\ nremoved[resp.queue] = 1
    /\ Len(queues[resp.queue]) = 1
    /\ resp.body # sends[1].msg_id

====
